---------------------------- MODULE Spec2Model ----------------------------
(***************************************************************************)
(* Model of leptos-md's MarkdownRenderer (src/src/renderer.rs), of the     *)
(* configuration and style tables it reads (src/src/components.rs) and of  *)
(* the Markdown component that calls it (src/src/lib.rs).                  *)
(*                                                                         *)
(* Representation choices                                                  *)
(*  - An event of the pulldown-cmark stream is a record                    *)
(*    [type, tag, text, checked]; Event::End carries a TagEnd the renderer *)
(*    never reads (`Event::End(_)`), so End has no payload here.           *)
(*  - A class attribute value is its sequence of whitespace-separated      *)
(*    tokens, so format!("{} {}", a, b) is a \o b on token sequences.      *)
(*    Text content, href, id, ... are strings; `.join("")` and format!     *)
(*    on them are string concatenation.                                    *)
(*  - A view (AnyView) is a record [tag, has_class, class, attrs, text,    *)
(*    children]; a text view has tag "#text".  A collected Vec<AnyView>    *)
(*    is a sequence of views.                                              *)
(*  - A slice index outside its range panics in Rust; the model records    *)
(*    that as outcome = "panic".                                           *)
(***************************************************************************)
EXTENDS Integers, Sequences, FiniteSets, TLC

VARIABLES
    options,         \* MarkdownRenderer.options
    input,           \* the event stream the tokenizer yields for `content`
    parser_options,  \* the pulldown-cmark Options built by render
    pc,              \* "building" | "idle" | "running" | "done" | "mounted"
    stack,           \* activations of render_events, innermost last
    outcome,         \* "none" | "ok" | "panic"
    view,            \* the value inside Ok(..) once render has returned
    returned,        \* the (events, tree) of every render call that returned Ok
    calls,           \* the builder setters applied to `options` so far
    class_prop,      \* the `class` prop of the Markdown component
    emitted          \* the view the Markdown component returned

vars ==
    <<options, input, parser_options, pc, stack, outcome, view, returned, calls,
      class_prop, emitted>>

\* The state a render call neither reads nor writes.
outside == <<calls, class_prop, emitted>>

----------------------------------------------------------------------------
(* Bounds of the model.                                                    *)
MaxLen == 5
MaxLenWide == 3
MaxLenHtml == 4
MaxLenCode == 3
MaxLenLink == 4
MaxLenList == 4
MaxLenImage == 5
MaxLenHeading == 3
MaxLenStyle == 4
MaxCalls == 3
MaxRenders == 3
MaxLenCodeText == 4
MaxLenShape == 3

----------------------------------------------------------------------------
(* components.rs: MarkdownClasses, as token sequences.                     *)
H1 == <<"text-3xl", "font-bold", "text-gray-900", "dark:text-gray-100", "mt-6", "mb-4",
    "first:mt-0">>
H2 == <<"text-2xl", "font-semibold", "text-gray-900", "dark:text-gray-100", "mt-5", "mb-3">>
H3 == <<"text-xl", "font-semibold", "text-gray-900", "dark:text-gray-100", "mt-4", "mb-2">>
H4 == <<"text-lg", "font-medium", "text-gray-900", "dark:text-gray-100", "mt-3", "mb-2">>
H5 == <<"text-base", "font-medium", "text-gray-900", "dark:text-gray-100", "mt-3", "mb-2">>
H6 == <<"text-sm", "font-medium", "text-gray-600", "dark:text-gray-400", "mt-3", "mb-2">>
PARAGRAPH == <<"mb-4", "leading-relaxed", "text-gray-700", "dark:text-gray-300">>
BLOCKQUOTE == <<"border-l-4", "border-blue-500", "pl-4", "py-2", "my-4", "bg-blue-50",
    "dark:bg-blue-950/30", "text-gray-700", "dark:text-gray-300", "italic">>
INLINE_CODE == <<"bg-gray-100", "dark:bg-gray-800", "text-gray-800", "dark:text-gray-200",
    "px-1.5", "py-0.5", "rounded", "text-sm", "font-mono">>
CODE_BLOCK == <<"bg-gray-50", "dark:bg-gray-900", "border", "border-gray-200",
    "dark:border-gray-700", "rounded-lg", "p-4", "my-4", "overflow-x-auto">>
CODE_BLOCK_CODE == <<"font-mono", "text-sm", "leading-relaxed", "text-gray-800",
    "dark:text-gray-200">>
UL == <<"list-disc", "list-inside", "mb-4", "space-y-1", "text-gray-700", "dark:text-gray-300">>
OL == <<"list-decimal", "list-inside", "mb-4", "space-y-1", "text-gray-700",
    "dark:text-gray-300">>
LI == <<"leading-relaxed">>
LINK == <<"text-blue-600", "dark:text-blue-400", "hover:text-blue-800",
    "dark:hover:text-blue-300", "underline", "underline-offset-2", "hover:underline-offset-4",
    "transition-all">>
IMAGE == <<"max-w-full", "h-auto", "rounded-lg", "shadow-sm", "my-4">>
TABLE == <<"min-w-full", "divide-y", "divide-gray-200", "dark:divide-gray-700", "my-4",
    "border", "border-gray-200", "dark:border-gray-700", "rounded-lg", "overflow-hidden">>
THEAD == <<"bg-gray-50", "dark:bg-gray-800">>
TR == <<"bg-white", "dark:bg-gray-900", "even:bg-gray-50", "dark:even:bg-gray-800/50">>
TD == <<"px-6", "py-4", "text-sm", "text-gray-900", "dark:text-gray-100">>
TH == <<"px-6", "py-3", "text-left", "text-xs", "font-medium", "text-gray-500",
    "dark:text-gray-400", "uppercase", "tracking-wider">>
HR == <<"border-0", "h-px", "bg-gradient-to-r", "from-transparent", "via-gray-300",
    "dark:via-gray-600", "to-transparent", "my-8">>
CHECKBOX == <<"mr-2", "accent-blue-600">>
MATH_INLINE == <<"font-serif", "italic", "text-gray-800", "dark:text-gray-200">>
MATH_DISPLAY == <<"font-serif", "italic", "text-center", "my-4", "p-3", "bg-gray-50",
    "dark:bg-gray-800", "rounded-lg", "text-gray-800", "dark:text-gray-200">>
DL == <<"my-4">>
DT == <<"font-semibold", "text-gray-900", "dark:text-gray-100", "mt-4", "first:mt-0">>
DD == <<"ml-6", "mb-2", "text-gray-700", "dark:text-gray-300">>
SUP == <<"text-xs", "align-super">>
SUB == <<"text-xs", "align-sub">>
EM == <<"italic">>
STRONG == <<"font-bold">>
DEL == <<"line-through", "text-gray-500", "dark:text-gray-400">>
FOOTNOTE_REF == <<"text-xs", "align-super", "text-blue-600", "dark:text-blue-400",
    "hover:text-blue-800", "dark:hover:text-blue-300">>
FOOTNOTE_DEF == <<"text-sm", "border-t", "border-gray-200", "dark:border-gray-700", "mt-8",
    "pt-4", "text-gray-600", "dark:text-gray-400">>
RAW_HTML_BLOCK == <<"bg-yellow-50", "dark:bg-yellow-950/30", "border", "border-yellow-200",
    "dark:border-yellow-800", "rounded-lg", "p-3", "my-4", "font-mono", "text-sm",
    "text-yellow-800", "dark:text-yellow-200", "whitespace-pre-wrap">>
INLINE_HTML == <<"bg-yellow-100", "dark:bg-yellow-900/50", "text-yellow-800",
    "dark:text-yellow-200", "px-2", "py-1", "rounded", "text-xs", "font-mono", "border",
    "border-yellow-300", "dark:border-yellow-700">>
THEME_DEFAULT == <<"bg-gray-50", "dark:bg-gray-900">>
THEME_DARK == <<"bg-gray-900", "text-gray-100">>
THEME_LIGHT == <<"bg-white", "text-gray-900", "border">>
THEME_GITHUB == <<"bg-[#f6f8fa]", "dark:bg-[#0d1117]", "text-[#24292f]", "dark:text-[#f0f6fc]">>
THEME_MONOKAI == <<"bg-[#272822]", "text-[#f8f8f2]">>

----------------------------------------------------------------------------
(* components.rs: CodeBlockTheme, MarkdownOptions, get_code_theme_classes. *)
CodeBlockTheme == {"Default", "Dark", "Light", "GitHub", "Monokai"}

NoTheme == "None"

MarkdownOptions ==
    [enable_gfm : BOOLEAN,
     code_theme : CodeBlockTheme \cup {NoTheme},
     syntax_highlighting_language_classes : BOOLEAN,
     open_links_in_new_tab : BOOLEAN,
     allow_raw_html : BOOLEAN,
     use_explicit_classes : BOOLEAN]

DefaultOptions ==
    [enable_gfm |-> TRUE,
     code_theme |-> "Default",
     syntax_highlighting_language_classes |-> TRUE,
     open_links_in_new_tab |-> TRUE,
     allow_raw_html |-> TRUE,
     use_explicit_classes |-> FALSE]

\* Variant: the GitHub preset reuses the Light preset's classes.
get_code_theme_classes_GitHubAsLight(theme) ==
    CASE theme = "Default" -> THEME_DEFAULT
      [] theme = "Dark"    -> THEME_DARK
      [] theme = "Light"   -> THEME_LIGHT
      [] theme = "GitHub"  -> THEME_LIGHT
      [] theme = "Monokai" -> THEME_MONOKAI

get_code_theme_classes(theme) ==
    CASE theme = "Default" -> THEME_DEFAULT
      [] theme = "Dark"    -> THEME_DARK
      [] theme = "Light"   -> THEME_LIGHT
      [] theme = "GitHub"  -> THEME_GITHUB
      [] theme = "Monokai" -> THEME_MONOKAI

----------------------------------------------------------------------------
(* pulldown_cmark::Tag and Event, as far as the renderer reads them.       *)
TagOf(kind) ==
    [kind |-> kind, level |-> 0, fenced |-> FALSE, lang |-> "",
     ordered |-> FALSE, start |-> 0, dest_url |-> "", title |-> "", label |-> ""]

NoTag == TagOf("None")

Paragraph == TagOf("Paragraph")
Heading(level) == [TagOf("Heading") EXCEPT !.level = level]
BlockQuote == TagOf("BlockQuote")
CodeBlockIndented == TagOf("CodeBlock")
CodeBlockFenced(lang) == [TagOf("CodeBlock") EXCEPT !.fenced = TRUE, !.lang = lang]
HtmlBlock == TagOf("HtmlBlock")
ListOrdered(start) == [TagOf("List") EXCEPT !.ordered = TRUE, !.start = start]
ListBullet == TagOf("List")
Item == TagOf("Item")
FootnoteDefinition(label) == [TagOf("FootnoteDefinition") EXCEPT !.label = label]
DefinitionList == TagOf("DefinitionList")
DefinitionListTitle == TagOf("DefinitionListTitle")
DefinitionListDefinition == TagOf("DefinitionListDefinition")
Table == TagOf("Table")
TableHead == TagOf("TableHead")
TableRow == TagOf("TableRow")
TableCell == TagOf("TableCell")
Emphasis == TagOf("Emphasis")
Strong == TagOf("Strong")
Strikethrough == TagOf("Strikethrough")
Superscript == TagOf("Superscript")
Subscript == TagOf("Subscript")
Link(dest_url, title) == [TagOf("Link") EXCEPT !.dest_url = dest_url, !.title = title]
Image(dest_url, title) == [TagOf("Image") EXCEPT !.dest_url = dest_url, !.title = title]
MetadataBlock == TagOf("MetadataBlock")

EventOf(type, tag, text, checked) ==
    [type |-> type, tag |-> tag, text |-> text, checked |-> checked]

Start(tag) == EventOf("Start", tag, "", FALSE)
End == EventOf("End", NoTag, "", FALSE)
Text(text) == EventOf("Text", NoTag, text, FALSE)
Code(code) == EventOf("Code", NoTag, code, FALSE)
Html(html) == EventOf("Html", NoTag, html, FALSE)
InlineHtml(raw) == EventOf("InlineHtml", NoTag, raw, FALSE)
SoftBreak == EventOf("SoftBreak", NoTag, "", FALSE)
HardBreak == EventOf("HardBreak", NoTag, "", FALSE)
Rule == EventOf("Rule", NoTag, "", FALSE)
FootnoteReference(reference) == EventOf("FootnoteReference", NoTag, reference, FALSE)
TaskListMarker(checked) == EventOf("TaskListMarker", NoTag, "", checked)
InlineMath(expr) == EventOf("InlineMath", NoTag, expr, FALSE)
DisplayMath(expr) == EventOf("DisplayMath", NoTag, expr, FALSE)

----------------------------------------------------------------------------
(* Views built by the view! macro.                                         *)
TextView(text) ==
    [tag |-> "#text", has_class |-> FALSE, class |-> <<>>, attrs |-> {},
     text |-> text, children |-> <<>>]

Element(tag, class, attrs, children) ==
    [tag |-> tag, has_class |-> TRUE, class |-> class, attrs |-> attrs,
     text |-> "", children |-> children]

ElementNoClass(tag, attrs, children) ==
    [tag |-> tag, has_class |-> FALSE, class |-> <<>>, attrs |-> attrs,
     text |-> "", children |-> children]

\* events[from..to] of Rust (0-based, `to` exclusive) on a 1-based sequence.
Slice(events, from, to) == SubSeq(events, from + 1, to)

\* Whether events[from..to] is in range (it panics otherwise).
SliceInRange(events, from, to) == from <= to /\ to <= Len(events)

----------------------------------------------------------------------------
(* renderer.rs: find_matching_end.                                         *)

\* The `for (i, event)` loop from index i on, `depth` being its value before
\* events[i] is examined.  Yields (end_index, consumed).
RECURSIVE ScanFrom(_, _, _)
ScanFrom(events, i, depth) ==
    IF i >= Len(events)
    THEN <<Len(events), Len(events)>>
    ELSE LET event == events[i + 1] IN
         CASE event.type = "Start" -> ScanFrom(events, i + 1, depth + 1)
           [] event.type = "End" ->
                IF depth - 1 = 0
                THEN <<i, i + 1>>
                ELSE ScanFrom(events, i + 1, depth - 1)
           [] OTHER -> ScanFrom(events, i + 1, depth)

\* Variant: a slice whose Start is never closed is taken to end with its End.
find_matching_end_AssumeClosed(events) ==
    LET found == ScanFrom(events, 0, 0) IN
    IF found[1] = Len(events) THEN <<Len(events) - 1, Len(events)>> ELSE found

\* Variant: the scan skips the Start (`.iter().skip(1)`, depth from 1) and
\* answers with indices of the skipped iterator.
find_matching_end_SkipFirst(events) == ScanFrom(Tail(events), 0, 1)

\* Variant: the scan stops at the first End, whatever the depth.
find_matching_end_FirstEnd(events) ==
    LET ends == {j \in 0..(Len(events) - 1) : events[j + 1].type = "End"} IN
    IF ends = {}
    THEN <<Len(events), Len(events)>>
    ELSE LET i == CHOOSE j \in ends : \A k \in ends : j <= k IN <<i, i + 1>>

\* Variant: the consumed count is one more than the index it should be.
find_matching_end_Overshoot(events) ==
    LET found == ScanFrom(events, 0, 0) IN <<found[1], found[2] + 1>>

find_matching_end(events) == ScanFrom(events, 0, 0)

\* The values `depth` takes, one per loop iteration, until the loop returns
\* or runs off the slice.
RECURSIVE ScanDepths(_, _, _)
ScanDepths(events, i, depth) ==
    IF i >= Len(events)
    THEN <<>>
    ELSE LET event == events[i + 1] IN
         CASE event.type = "Start" ->
                <<depth + 1>> \o ScanDepths(events, i + 1, depth + 1)
           [] event.type = "End" ->
                IF depth - 1 = 0
                THEN <<depth - 1>>
                ELSE <<depth - 1>> \o ScanDepths(events, i + 1, depth - 1)
           [] OTHER -> <<depth>> \o ScanDepths(events, i + 1, depth)

\* Variant: inline code is not collected.
RECURSIVE extract_text_content_TextOnly(_)
extract_text_content_TextOnly(events) ==
    IF events = <<>>
    THEN ""
    ELSE LET event == Head(events) IN
         (IF event.type = "Text" THEN event.text ELSE "")
             \o extract_text_content_TextOnly(Tail(events))

(* renderer.rs: extract_text_content.                                      *)
RECURSIVE extract_text_content(_)
extract_text_content(events) ==
    IF events = <<>>
    THEN ""
    ELSE LET event == Head(events) IN
         (IF event.type \in {"Text", "Code"} THEN event.text ELSE "")
             \o extract_text_content(Tail(events))

----------------------------------------------------------------------------
(* renderer.rs: render_event, the arms that are not Event::Start.  Each    *)
(* yields its view and consumes one event.                                 *)

\* Variant: inline HTML is injected whatever allow_raw_html says.
InlineHtmlView_AlwaysRaw(event, opts) ==
    ElementNoClass("span", {<<"inner_html", event.text>>}, <<>>)

\* Event::InlineHtml.
InlineHtmlView(event, opts) ==
    IF opts.allow_raw_html
    THEN ElementNoClass("span", {<<"inner_html", event.text>>}, <<>>)
    ELSE TextView(event.text)

LeafView(event, opts) ==
    LET explicit == opts.use_explicit_classes IN
    CASE event.type = "End" -> TextView("")
      [] event.type = "Text" -> TextView(event.text)
      [] event.type = "Code" ->
           Element("code", IF explicit THEN INLINE_CODE ELSE <<"inline-code">>, {},
                   <<TextView(event.text)>>)
      [] event.type = "Html" ->
           Element("span", <<"raw-html">>, {}, <<TextView(event.text)>>)
      [] event.type = "SoftBreak" -> ElementNoClass("span", {}, <<TextView(" ")>>)
      [] event.type = "HardBreak" -> ElementNoClass("br", {}, <<>>)
      [] event.type = "Rule" ->
           Element("hr", IF explicit THEN HR ELSE <<"markdown-hr">>, {}, <<>>)
      [] event.type = "FootnoteReference" ->
           Element("sup", IF explicit THEN FOOTNOTE_REF ELSE <<"footnote-ref">>, {},
                   <<ElementNoClass("a", {<<"href", "#" \o event.text>>},
                                    <<TextView(event.text)>>)>>)
      [] event.type = "TaskListMarker" ->
           Element("input", IF explicit THEN CHECKBOX ELSE <<>>,
                   {<<"type", "checkbox">>, <<"disabled", "">>}
                       \cup (IF event.checked THEN {<<"checked", "">>} ELSE {}),
                   <<>>)
      [] event.type = "InlineMath" ->
           Element("span", IF explicit THEN MATH_INLINE ELSE <<"math", "math-inline">>,
                   {}, <<TextView(event.text)>>)
      [] event.type = "DisplayMath" ->
           Element("div", IF explicit THEN MATH_DISPLAY ELSE <<"math", "math-display">>,
                   {}, <<TextView(event.text)>>)
      [] event.type = "InlineHtml" -> InlineHtmlView(event, opts)

----------------------------------------------------------------------------
(* renderer.rs: render_start_tag, the `match tag` that builds the view     *)
(* from the inner events and, for the kinds that render them, from the     *)
(* rendered children (inner_content).                                      *)

\* The kinds whose arm calls self.render_events(inner_events).
RendersChildren(tag) ==
    tag.kind \notin {"CodeBlock", "Image", "HtmlBlock", "MetadataBlock"}

\* An arm of the shape `if use_explicit { <t class=C> } else { <t> }`.
ClassIfExplicit(name, class, attrs, inner_content, opts) ==
    IF opts.use_explicit_classes
    THEN Element(name, class, attrs, inner_content)
    ELSE ElementNoClass(name, attrs, inner_content)

\* Tag::Heading, use_explicit branch: the element of each HeadingLevel.
HeadingName(level) ==
    CASE level = 1 -> "h1" [] level = 2 -> "h2" [] level = 3 -> "h3"
      [] level = 4 -> "h4" [] level = 5 -> "h5" [] level = 6 -> "h6"

\* Variant: the two deepest levels share an element.
HeadingNamePlain_H6AsH5(level) ==
    CASE level = 1 -> "h1" [] level = 2 -> "h2" [] level = 3 -> "h3"
      [] level = 4 -> "h4" [] level = 5 -> "h5" [] level = 6 -> "h5"

\* Tag::Heading, else branch: the second `match level`.
HeadingNamePlain(level) ==
    CASE level = 1 -> "h1" [] level = 2 -> "h2" [] level = 3 -> "h3"
      [] level = 4 -> "h4" [] level = 5 -> "h5" [] level = 6 -> "h6"

HeadingClass(level) ==
    CASE level = 1 -> H1 [] level = 2 -> H2 [] level = 3 -> H3
      [] level = 4 -> H4 [] level = 5 -> H5 [] level = 6 -> H6

HeadingView(tag, inner_content, opts) ==
    IF opts.use_explicit_classes
    THEN Element(HeadingName(tag.level), HeadingClass(tag.level), {}, inner_content)
    ELSE ElementNoClass(HeadingNamePlain(tag.level), {}, inner_content)

\* Tag::CodeBlock: language_class, as Some(tokens) = <<tokens>>, None = <<>>.
LanguageClass(tag, opts) ==
    IF opts.syntax_highlighting_language_classes
    THEN IF ~tag.fenced
         THEN <<"language-text">>
         ELSE IF tag.lang = ""
              THEN <<"language-text">>
              ELSE <<"language-" \o tag.lang>>
    ELSE <<>>

\* Tag::CodeBlock: theme_classes, empty for None.
ThemeClasses(opts) ==
    IF opts.code_theme = NoTheme THEN <<>> ELSE get_code_theme_classes(opts.code_theme)

\* Tag::CodeBlock: combined_class, the class of <pre>.
CombinedClass(tag, opts) ==
    (IF opts.use_explicit_classes THEN CODE_BLOCK ELSE <<"markdown-code-block">>)
        \o LanguageClass(tag, opts) \o ThemeClasses(opts)

\* Variant: only <pre> carries the language class.
CodeClass_NoLanguage(tag, opts) ==
    IF opts.use_explicit_classes THEN CODE_BLOCK_CODE ELSE <<>>

\* Tag::CodeBlock: code_class, the class of <code>.
CodeClass(tag, opts) ==
    IF opts.use_explicit_classes
    THEN CODE_BLOCK_CODE \o LanguageClass(tag, opts)
    ELSE LanguageClass(tag, opts)

\* Variant: without language classes the text sits directly in the pre.
CodeBlockView_BareWhenNoLanguage(tag, inner_events, opts) ==
    IF opts.syntax_highlighting_language_classes
    THEN Element("pre", CombinedClass(tag, opts), {},
                 <<Element("code", CodeClass(tag, opts), {},
                           <<TextView(extract_text_content(inner_events))>>)>>)
    ELSE Element("pre", CombinedClass(tag, opts), {},
                 <<TextView(extract_text_content(inner_events))>>)

CodeBlockView(tag, inner_events, opts) ==
    Element("pre", CombinedClass(tag, opts), {},
            <<Element("code", CodeClass(tag, opts), {},
                      <<TextView(extract_text_content(inner_events))>>)>>)

\* Variant: target and rel are attached only in the branch that has a title.
LinkView_NewTabOnlyWithTitle(tag, inner_content, opts) ==
    Element("a", IF opts.use_explicit_classes THEN LINK ELSE <<>>,
            {<<"href", tag.dest_url>>}
                \cup (IF tag.title # ""
                      THEN {<<"title", tag.title>>}
                               \cup (IF opts.open_links_in_new_tab
                                     THEN {<<"target", "_blank">>,
                                           <<"rel", "noopener noreferrer">>}
                                     ELSE {})
                      ELSE {}),
            inner_content)

\* Tag::Link: the four view! branches, by (title empty?, new tab?).
LinkView(tag, inner_content, opts) ==
    Element("a", IF opts.use_explicit_classes THEN LINK ELSE <<>>,
            {<<"href", tag.dest_url>>}
                \cup (IF tag.title # "" THEN {<<"title", tag.title>>} ELSE {})
                \cup (IF opts.open_links_in_new_tab
                      THEN {<<"target", "_blank">>, <<"rel", "noopener noreferrer">>}
                      ELSE {}),
            inner_content)

\* Variant: the title attribute is written even when the title is empty.
ImageView_TitleAlways(tag, inner_events, opts) ==
    Element("img", IF opts.use_explicit_classes THEN IMAGE ELSE <<"markdown-image">>,
            {<<"src", tag.dest_url>>, <<"alt", extract_text_content(inner_events)>>,
             <<"title", tag.title>>},
            <<>>)

\* Tag::Image: the inner events are not rendered, only their text is
\* collected for alt.
ImageView(tag, inner_events, opts) ==
    Element("img", IF opts.use_explicit_classes THEN IMAGE ELSE <<"markdown-image">>,
            {<<"src", tag.dest_url>>, <<"alt", extract_text_content(inner_events)>>}
                \cup (IF tag.title # "" THEN {<<"title", tag.title>>} ELSE {}),
            <<>>)

\* Variant: the block's content also collects its Html events.
RECURSIVE extract_html_content(_)
extract_html_content(events) ==
    IF events = <<>>
    THEN ""
    ELSE LET event == Head(events) IN
         (IF event.type \in {"Text", "Code", "Html"} THEN event.text ELSE "")
             \o extract_html_content(Tail(events))

HtmlBlockView_KeepsHtml(inner_events, opts) ==
    LET raw_html == extract_html_content(inner_events) IN
    IF opts.allow_raw_html
    THEN ElementNoClass("div", {<<"inner_html", raw_html>>}, <<>>)
    ELSE Element("pre",
                 IF opts.use_explicit_classes THEN RAW_HTML_BLOCK ELSE <<"raw-html-block">>,
                 {}, <<TextView(raw_html)>>)

\* Variant: the block is injected whatever allow_raw_html says.
HtmlBlockView_AlwaysRaw(inner_events, opts) ==
    ElementNoClass("div", {<<"inner_html", extract_text_content(inner_events)>>}, <<>>)

HtmlBlockView(inner_events, opts) ==
    LET raw_html == extract_text_content(inner_events) IN
    IF opts.allow_raw_html
    THEN ElementNoClass("div", {<<"inner_html", raw_html>>}, <<>>)
    ELSE Element("pre",
                 IF opts.use_explicit_classes THEN RAW_HTML_BLOCK ELSE <<"raw-html-block">>,
                 {}, <<TextView(raw_html)>>)

\* Variant: the metadata is shown as preformatted text.
MetadataBlockView_Shown(inner_events) ==
    ElementNoClass("pre", {}, <<TextView(extract_text_content(inner_events))>>)

\* Tag::MetadataBlock: ("".into_any(), consumed).
MetadataBlockView(inner_events) == TextView("")

\* Variant: an ordered list always starts at 1.
ListView_StartsAtOne(tag, inner_content, opts) ==
    IF tag.ordered
    THEN ClassIfExplicit("ol", OL, {<<"start", "1">>}, inner_content, opts)
    ELSE ClassIfExplicit("ul", UL, {}, inner_content, opts)

\* Tag::List(start_number): Some(start) is an ol with start.to_string(),
\* None is a ul.
ListView(tag, inner_content, opts) ==
    IF tag.ordered
    THEN ClassIfExplicit("ol", OL, {<<"start", ToString(tag.start)>>}, inner_content, opts)
    ELSE ClassIfExplicit("ul", UL, {}, inner_content, opts)

StartTagView(tag, inner_events, inner_content, opts) ==
    LET explicit == opts.use_explicit_classes IN
    CASE tag.kind = "Paragraph" -> ClassIfExplicit("p", PARAGRAPH, {}, inner_content, opts)
      [] tag.kind = "Heading" -> HeadingView(tag, inner_content, opts)
      [] tag.kind = "BlockQuote" ->
           Element("blockquote", IF explicit THEN BLOCKQUOTE ELSE <<"markdown-blockquote">>,
                   {}, inner_content)
      [] tag.kind = "CodeBlock" -> CodeBlockView(tag, inner_events, opts)
      [] tag.kind = "List" -> ListView(tag, inner_content, opts)
      [] tag.kind = "Item" -> ClassIfExplicit("li", LI, {}, inner_content, opts)
      [] tag.kind = "Emphasis" -> ClassIfExplicit("em", EM, {}, inner_content, opts)
      [] tag.kind = "Strong" -> ClassIfExplicit("strong", STRONG, {}, inner_content, opts)
      [] tag.kind = "Strikethrough" -> ClassIfExplicit("del", DEL, {}, inner_content, opts)
      [] tag.kind = "Link" -> LinkView(tag, inner_content, opts)
      [] tag.kind = "Image" -> ImageView(tag, inner_events, opts)
      [] tag.kind = "Table" ->
           Element("table", IF explicit THEN TABLE ELSE <<"markdown-table">>, {},
                   inner_content)
      [] tag.kind = "TableHead" -> ClassIfExplicit("thead", THEAD, {}, inner_content, opts)
      [] tag.kind = "TableRow" -> ClassIfExplicit("tr", TR, {}, inner_content, opts)
      [] tag.kind = "TableCell" -> ClassIfExplicit("td", TD, {}, inner_content, opts)
      [] tag.kind = "FootnoteDefinition" ->
           Element("div", IF explicit THEN FOOTNOTE_DEF ELSE <<"footnote-definition">>,
                   {<<"id", tag.label>>}, inner_content)
      [] tag.kind = "HtmlBlock" -> HtmlBlockView(inner_events, opts)
      [] tag.kind = "DefinitionList" -> ClassIfExplicit("dl", DL, {}, inner_content, opts)
      [] tag.kind = "DefinitionListTitle" ->
           ClassIfExplicit("dt", DT, {}, inner_content, opts)
      [] tag.kind = "DefinitionListDefinition" ->
           ClassIfExplicit("dd", DD, {}, inner_content, opts)
      [] tag.kind = "Superscript" -> ClassIfExplicit("sup", SUP, {}, inner_content, opts)
      [] tag.kind = "Subscript" -> ClassIfExplicit("sub", SUB, {}, inner_content, opts)
      [] tag.kind = "MetadataBlock" -> MetadataBlockView(inner_events)

----------------------------------------------------------------------------
(* renderer.rs: render_events, render_event and render_start_tag as        *)
(* functions of the slice and the options.                                 *)
RECURSIVE render_events(_, _), RenderLoop(_, _, _, _), render_event(_, _),
          render_start_tag(_, _, _)

render_start_tag(tag, events, opts) ==
    LET found == find_matching_end(events)
        end_index == found[1]
        consumed == found[2]
        inner_events == Slice(events, 1, end_index)
        inner_content ==
            IF RendersChildren(tag) THEN render_events(inner_events, opts) ELSE <<>>
    IN  <<StartTagView(tag, inner_events, inner_content, opts), consumed>>

render_event(events, opts) ==
    IF events[1].type = "Start"
    THEN render_start_tag(events[1].tag, events, opts)
    ELSE <<LeafView(events[1], opts), 1>>

\* The `while i < events.len()` loop from cursor i with `result` so far.
RenderLoop(events, i, result, opts) ==
    IF i < Len(events)
    THEN LET step == render_event(Slice(events, i, Len(events)), opts) IN
         RenderLoop(events, i + step[2], Append(result, step[1]), opts)
    ELSE result

render_events(events, opts) == RenderLoop(events, 0, <<>>, opts)

----------------------------------------------------------------------------
(* MarkdownRenderer::render as a state machine: one activation record per  *)
(* render_events call in progress, one step per loop iteration, call and   *)
(* return.                                                                 *)

\* An activation of render_events: its slice, cursor and result vector,
\* and the tag and consumed count of the render_start_tag call awaiting it
\* (NoTag for the call made by render).
Frame(events, tag, consumed) ==
    [events |-> events, i |-> 0, result |-> <<>>, tag |-> tag, consumed |-> consumed]

Top == stack[Len(stack)]

\* &events[i..], the slice handed to render_event.
Rest == Slice(Top.events, Top.i, Len(Top.events))

Looping == pc = "running" /\ Top.i < Len(Top.events)

LoopEnded == pc = "running" /\ Top.i >= Len(Top.events)

\* Variant: the cursor is not advanced.
PushResult_NoAdvance(frames, rendered, consumed) ==
    [frames EXCEPT ![Len(frames)] = [@ EXCEPT !.result = Append(@, rendered)]]

\* Variant: the rendered view is put in front of the earlier ones.
PushResult_Prepend(frames, rendered, consumed) ==
    [frames EXCEPT ![Len(frames)] =
        [@ EXCEPT !.result = <<rendered>> \o @, !.i = @ + consumed]]

\* result.push(rendered); i += consumed;
PushResult(frames, rendered, consumed) ==
    [frames EXCEPT ![Len(frames)] =
        [@ EXCEPT !.result = Append(@, rendered), !.i = @ + consumed]]

\* An index out of range unwinds the whole call.
Panic ==
    /\ pc' = "done"
    /\ outcome' = "panic"
    /\ stack' = <<>>
    /\ UNCHANGED <<options, input, parser_options, view, returned, outside>>

\* Variant: task lists are left out of the GFM features.
GfmFeatures_NoTaskLists == {"ENABLE_TABLES", "ENABLE_FOOTNOTES", "ENABLE_STRIKETHROUGH"}

\* render: the four Options flags inserted when enable_gfm is set.
GfmFeatures ==
    {"ENABLE_TABLES", "ENABLE_FOOTNOTES", "ENABLE_STRIKETHROUGH", "ENABLE_TASKLISTS"}

\* Variant: the result vector of the outermost render_events is kept from
\* the previous call instead of being created empty.
Render_ReusesBuffer ==
    /\ pc = "idle"
    /\ parser_options' = IF options.enable_gfm THEN GfmFeatures ELSE {}
    /\ stack' = <<[Frame(input, NoTag, 0) EXCEPT !.result = view]>>
    /\ pc' = "running"
    /\ UNCHANGED <<options, input, outcome, view, returned, outside>>

\* render: build the parser options, collect the events, call render_events.
Render ==
    /\ pc = "idle"
    /\ parser_options' = IF options.enable_gfm THEN GfmFeatures ELSE {}
    /\ stack' = <<Frame(input, NoTag, 0)>>
    /\ pc' = "running"
    /\ UNCHANGED <<options, input, outcome, view, returned, outside>>

\* A loop iteration on an event that is not a Start.
LoopLeaf ==
    /\ Looping
    /\ Rest[1].type # "Start"
    /\ stack' = PushResult(stack, LeafView(Rest[1], options), 1)
    /\ UNCHANGED <<options, input, parser_options, pc, outcome, view, returned, outside>>

\* A loop iteration on a Start whose arm does not render children.
LoopStartDirect ==
    /\ Looping
    /\ Rest[1].type = "Start"
    /\ ~RendersChildren(Rest[1].tag)
    /\ LET found == find_matching_end(Rest) IN
       IF SliceInRange(Rest, 1, found[1])
       THEN /\ stack' = PushResult(stack,
                            StartTagView(Rest[1].tag, Slice(Rest, 1, found[1]), <<>>, options),
                            found[2])
            /\ UNCHANGED <<options, input, parser_options, pc, outcome, view, returned, outside>>
       ELSE Panic

\* A loop iteration on a Start whose arm calls render_events(inner_events).
LoopStartCall ==
    /\ Looping
    /\ Rest[1].type = "Start"
    /\ RendersChildren(Rest[1].tag)
    /\ LET found == find_matching_end(Rest) IN
       IF SliceInRange(Rest, 1, found[1])
       THEN /\ stack' = Append(stack,
                               Frame(Slice(Rest, 1, found[1]), Rest[1].tag, found[2]))
            /\ UNCHANGED <<options, input, parser_options, pc, outcome, view, returned, outside>>
       ELSE Panic

\* render_events returns to render_start_tag, which wraps the children and
\* returns (view, consumed) to the caller's loop.
ReturnChildren ==
    /\ LoopEnded
    /\ Len(stack) > 1
    /\ stack' = PushResult(SubSeq(stack, 1, Len(stack) - 1),
                           StartTagView(Top.tag, Top.events, Top.result, options),
                           Top.consumed)
    /\ UNCHANGED <<options, input, parser_options, pc, outcome, view, returned, outside>>

\* Variant: render wraps the collected views in a container element.
RenderReturn_Wrapped ==
    /\ LoopEnded
    /\ Len(stack) = 1
    /\ view' = <<ElementNoClass("div", {}, Top.result)>>
    /\ returned' = Append(returned, [input |-> input, view |-> view'])
    /\ outcome' = "ok"
    /\ pc' = "done"
    /\ stack' = <<>>
    /\ UNCHANGED <<options, input, parser_options, outside>>

\* The outermost render_events returns and render yields Ok(view).
RenderReturn ==
    /\ LoopEnded
    /\ Len(stack) = 1
    /\ view' = Top.result
    /\ returned' = Append(returned, [input |-> input, view |-> Top.result])
    /\ outcome' = "ok"
    /\ pc' = "done"
    /\ stack' = <<>>
    /\ UNCHANGED <<options, input, parser_options, outside>>

Next ==
    \/ Render
    \/ LoopLeaf
    \/ LoopStartDirect
    \/ LoopStartCall
    \/ ReturnChildren
    \/ RenderReturn

----------------------------------------------------------------------------
(* Inputs.                                                                 *)
\* The Markdown component's `class` prop when it is not given (None).
NoClass == [given |-> FALSE, tokens |-> <<>>]

SeqsUpTo(S, n) == UNION {[1..k -> S] : k \in 0..n}

InitWith(inputs, optionSet) ==
    /\ options \in optionSet
    /\ input \in inputs
    /\ parser_options = {}
    /\ pc = "idle"
    /\ stack = <<>>
    /\ outcome = "none"
    /\ view = <<>>
    /\ returned = <<>>
    /\ calls = <<>>
    /\ class_prop = NoClass
    /\ emitted = <<>>

\* Streams of paragraphs, emphasis, metadata blocks and text: well nested,
\* truncated (a Start without its End) or with stray Ends.
NestEvents == {Start(Paragraph), Start(Emphasis), Start(MetadataBlock), End, Text("a")}

NestOptions == {[DefaultOptions EXCEPT !.use_explicit_classes = e] : e \in BOOLEAN}

Init == InitWith(SeqsUpTo(NestEvents, MaxLen), NestOptions)

Spec == Init /\ [][Next]_vars

\* The renderer is a sequential program: a step that can be taken is taken.
LiveSpec == Spec /\ WF_vars(Next)

\* Every value of MarkdownOptions, on short streams that reach every option.
WideEvents ==
    {Start(Paragraph), Start(CodeBlockFenced("rust")), Start(Link("u", "")), End,
     InlineHtml("<u>")}

InitWide == InitWith(SeqsUpTo(WideEvents, MaxLenWide), MarkdownOptions)

SpecWide == InitWide /\ [][Next]_vars

\* HTML blocks as the tokenizer emits them (Start, Html lines, End), inline
\* HTML, and text inside blocks.
HtmlEvents ==
    {Start(Paragraph), Start(HtmlBlock), End, Text("<b>"), Html("<i>"), InlineHtml("<u>")}

HtmlOptions ==
    {[DefaultOptions EXCEPT !.allow_raw_html = r, !.use_explicit_classes = e] :
        r \in BOOLEAN, e \in BOOLEAN}

InitHtml == InitWith(SeqsUpTo(HtmlEvents, MaxLenHtml), HtmlOptions)

SpecHtml == InitHtml /\ [][Next]_vars

\* Code blocks: indented, fenced without and with an info string (a single
\* word), under every theme and both class switches.
Langs == {"", "rust"}

CodeEvents ==
    {Start(Paragraph), Start(CodeBlockIndented), End, Text("x"), Code("y")}
        \cup {Start(CodeBlockFenced(lang)) : lang \in Langs}

CodeOptions ==
    {[DefaultOptions EXCEPT !.code_theme = t,
                            !.syntax_highlighting_language_classes = l,
                            !.use_explicit_classes = e] :
        t \in CodeBlockTheme \cup {NoTheme}, l \in BOOLEAN, e \in BOOLEAN}

InitCode == InitWith(SeqsUpTo(CodeEvents, MaxLenCode), CodeOptions)

SpecCode == InitCode /\ [][Next]_vars

\* Links without and with a title, around text, images and each other,
\* under both values of open_links_in_new_tab and both class switches.
LinkEvents ==
    {Start(Link("u", "")), Start(Link("v", "t")), Start(Image("w", "")), End, Text("a")}

LinkOptions ==
    {[DefaultOptions EXCEPT !.open_links_in_new_tab = n, !.use_explicit_classes = e] :
        n \in BOOLEAN, e \in BOOLEAN}

InitLink == InitWith(SeqsUpTo(LinkEvents, MaxLenLink), LinkOptions)

SpecLink == InitLink /\ [][Next]_vars

\* Ordered lists with one-digit and two-digit start numbers, bullet lists
\* and items, nested in each other, under both class switches.
ListStarts == {0, 3, 12}

ListEvents ==
    {Start(ListOrdered(n)) : n \in ListStarts}
        \cup {Start(ListBullet), Start(MetadataBlock), End, Text("a")}

InitList == InitWith(SeqsUpTo(ListEvents, MaxLenList), NestOptions)

SpecList == InitList /\ [][Next]_vars

\* Images without and with a title whose alt text holds text, inline code
\* and emphasis.
ImageEvents ==
    {Start(Image("u", "")), Start(Image("v", "t")), Start(Emphasis), End, Text("a"),
     Code("b")}

InitImage == InitWith(SeqsUpTo(ImageEvents, MaxLenImage), NestOptions)

SpecImage == InitImage /\ [][Next]_vars

\* Headings of every HeadingLevel, nested or in sequence, under both class
\* switches.
HeadingLevels == 1..6

HeadingEvents ==
    {Start(Heading(level)) : level \in HeadingLevels}
        \cup {Start(MetadataBlock), End, Text("a")}

InitHeading == InitWith(SeqsUpTo(HeadingEvents, MaxLenHeading), NestOptions)

SpecHeading == InitHeading /\ [][Next]_vars

\* Elements of each styling shape: class only when explicit (p), class in
\* both modes (blockquote, img, hr) and never a class (the span of a soft
\* break).
StyleEvents ==
    {Start(Paragraph), Start(BlockQuote), Start(Image("u", "")), End, Rule, SoftBreak,
     Text("a")}

InitStyle == InitWith(SeqsUpTo(StyleEvents, MaxLenStyle), NestOptions)

SpecStyle == InitStyle /\ [][Next]_vars

\* Code blocks whose interior holds several text and inline-code events,
\* line breaks and nested containers.
CodeTextEvents ==
    {Start(CodeBlockFenced("rust")), Start(Paragraph), End, Text("x"), Code("y"),
     SoftBreak}

InitCodeText == InitWith(SeqsUpTo(CodeTextEvents, MaxLenCodeText), NestOptions)

SpecCodeText == InitCodeText /\ [][Next]_vars

\* The elements whose attributes depend on an option (code block, link,
\* paragraph) and those whose form depends on allow_raw_html (HTML block,
\* inline HTML), rendered by a renderer with raw HTML on or off.
ShapeEvents ==
    {Start(Paragraph), Start(CodeBlockFenced("rust")), Start(Link("u", "t")),
     Start(HtmlBlock), End, InlineHtml("<u>"), Text("x")}

ShapeOptions == {[DefaultOptions EXCEPT !.allow_raw_html = r] : r \in BOOLEAN}

InitShape == InitWith(SeqsUpTo(ShapeEvents, MaxLenShape), ShapeOptions)

SpecShape == InitShape /\ [][Next]_vars

----------------------------------------------------------------------------
(* Several render calls on one MarkdownRenderer (render takes &self).      *)

\* The event streams of a few documents: empty, inline HTML, a paragraph,
\* an image with alt text, emphasis inside a paragraph.
Documents ==
    {<<>>,
     <<InlineHtml("<u>")>>,
     <<Start(Paragraph), Text("a"), End>>,
     <<Start(Image("u", "")), Text("a"), End>>,
     <<Start(Paragraph), Start(Emphasis), Text("a"), End, End>>}

\* After a call has returned, render is called again with some content.
RenderAgain ==
    /\ pc = "done"
    /\ Len(returned) < MaxRenders
    /\ input' \in Documents
    /\ pc' = "idle"
    /\ outcome' = "none"
    /\ UNCHANGED <<options, parser_options, stack, view, returned, outside>>

NextCalls ==
    \/ Next
    \/ RenderAgain

InitCalls == InitWith(Documents, HtmlOptions)

SpecCalls == InitCalls /\ [][NextCalls]_vars

----------------------------------------------------------------------------
(* lib.rs: the Markdown component.  It renders `content` and matches on    *)
(* the Result: Ok is wrapped in a div carrying the prose classes, Err is   *)
(* shown in an error box.                                                  *)
get_enhanced_prose_classes ==
    <<"leptos-mdx-content", "prose", "prose-gray", "max-w-none",
      "dark:prose-invert", "prose-headings:font-bold",
      "prose-headings:text-gray-900", "dark:prose-headings:text-gray-100",
      "prose-p:text-gray-700", "dark:prose-p:text-gray-300",
      "prose-a:text-blue-600", "dark:prose-a:text-blue-400",
      "prose-strong:text-gray-900", "dark:prose-strong:text-gray-100",
      "prose-code:text-gray-800", "dark:prose-code:text-gray-200",
      "prose-pre:bg-gray-50", "dark:prose-pre:bg-gray-900">>

Ok(rendered_content) == [ok |-> TRUE, view |-> rendered_content, err |-> ""]

Err(err) == [ok |-> FALSE, view |-> <<>>, err |-> err]

\* A `class` prop that is given.
SomeClass(tokens) == [given |-> TRUE, tokens |-> tokens]

ErrorBoxClass ==
    <<"bg-red-50", "dark:bg-red-950/30", "border", "border-red-200",
      "dark:border-red-800", "rounded-lg", "p-4", "text-red-800", "dark:text-red-200">>

\* Variant: the wrapper carries the prose classes only.
MarkdownView_IgnoresClass(result, class) ==
    IF result.ok
    THEN Element("div", get_enhanced_prose_classes, {}, result.view)
    ELSE Element("div", ErrorBoxClass, {},
                 <<Element("p", <<"font-medium">>, {},
                           <<TextView("Failed to render markdown content")>>),
                   Element("p", <<"text-sm", "mt-1">>, {}, <<TextView(result.err)>>)>>)

\* The two arms of `match renderer.render(&content)`.
MarkdownView(result, class) ==
    IF result.ok
    THEN LET wrapper_class ==
                 IF class.given
                 THEN get_enhanced_prose_classes \o class.tokens
                 ELSE get_enhanced_prose_classes
         IN  Element("div", wrapper_class, {}, result.view)
    ELSE Element("div", ErrorBoxClass, {},
                 <<Element("p", <<"font-medium">>, {},
                           <<TextView("Failed to render markdown content")>>),
                   Element("p", <<"text-sm", "mt-1">>, {}, <<TextView(result.err)>>)>>)

\* render has returned `Ok(self.render_events(&events))`, its only return,
\* and the component builds its view from it.
Mount ==
    /\ pc = "done"
    /\ outcome = "ok"
    /\ emitted' = <<MarkdownView(Ok(view), class_prop)>>
    /\ pc' = "mounted"
    /\ UNCHANGED <<options, input, parser_options, stack, outcome, view, returned, calls,
                   class_prop>>

NextComponent ==
    \/ Next
    \/ Mount

\* The props: content, class (absent or given) and options.
InitComponent ==
    /\ options \in HtmlOptions
    /\ input \in Documents
    /\ class_prop \in {NoClass, SomeClass(<<"mt-4">>), SomeClass(<<"mt-4", "px-2">>)}
    /\ parser_options = {}
    /\ pc = "idle"
    /\ stack = <<>>
    /\ outcome = "none"
    /\ view = <<>>
    /\ returned = <<>>
    /\ calls = <<>>
    /\ emitted = <<>>

SpecComponent == InitComponent /\ [][NextComponent]_vars

----------------------------------------------------------------------------
(* components.rs: the builder of MarkdownOptions.  Each setter takes the   *)
(* value, assigns one field and returns the value.                         *)
with_gfm(self, enable) == [self EXCEPT !.enable_gfm = enable]

with_code_theme(self, theme) == [self EXCEPT !.code_theme = theme]

without_code_theme(self) == [self EXCEPT !.code_theme = NoTheme]

with_language_classes(self, enable) ==
    [self EXCEPT !.syntax_highlighting_language_classes = enable]

with_new_tab_links(self, enable) == [self EXCEPT !.open_links_in_new_tab = enable]

with_allow_raw_html(self, enable) == [self EXCEPT !.allow_raw_html = enable]

\* Variant: switching explicit classes on also switches the theme off.
with_explicit_classes_DropsTheme(self, enable) ==
    [self EXCEPT !.use_explicit_classes = enable,
                 !.code_theme = IF enable THEN NoTheme ELSE @]

with_explicit_classes(self, enable) == [self EXCEPT !.use_explicit_classes = enable]

\* A setter call as recorded in `calls`; a setter without argument
\* records FALSE.
Call(name, arg) == [name |-> name, arg |-> arg]

\* One more setter is chained: `options` becomes its result.
Chain(call, result) ==
    /\ pc = "building"
    /\ Len(calls) < MaxCalls
    /\ options' = result
    /\ calls' = Append(calls, call)
    /\ UNCHANGED <<input, parser_options, pc, stack, outcome, view, returned, class_prop,
                   emitted>>

WithGfm == \E enable \in BOOLEAN : Chain(Call("with_gfm", enable), with_gfm(options, enable))

WithCodeTheme ==
    \E theme \in CodeBlockTheme :
        Chain(Call("with_code_theme", theme), with_code_theme(options, theme))

WithoutCodeTheme == Chain(Call("without_code_theme", FALSE), without_code_theme(options))

WithLanguageClasses ==
    \E enable \in BOOLEAN :
        Chain(Call("with_language_classes", enable), with_language_classes(options, enable))

WithNewTabLinks ==
    \E enable \in BOOLEAN :
        Chain(Call("with_new_tab_links", enable), with_new_tab_links(options, enable))

WithAllowRawHtml ==
    \E enable \in BOOLEAN :
        Chain(Call("with_allow_raw_html", enable), with_allow_raw_html(options, enable))

WithExplicitClasses ==
    \E enable \in BOOLEAN :
        Chain(Call("with_explicit_classes", enable), with_explicit_classes(options, enable))

NextBuilder ==
    \/ WithGfm
    \/ WithCodeTheme
    \/ WithoutCodeTheme
    \/ WithLanguageClasses
    \/ WithNewTabLinks
    \/ WithAllowRawHtml
    \/ WithExplicitClasses

\* MarkdownOptions::new(), before any setter.
InitBuilder ==
    /\ options = DefaultOptions
    /\ input = <<>>
    /\ parser_options = {}
    /\ pc = "building"
    /\ stack = <<>>
    /\ outcome = "none"
    /\ view = <<>>
    /\ returned = <<>>
    /\ calls = <<>>
    /\ class_prop = NoClass
    /\ emitted = <<>>

SpecBuilder == InitBuilder /\ [][NextBuilder]_vars

----------------------------------------------------------------------------
(* Stream structure, stated by counting and independently of the scan.     *)

\* Starts minus Ends among the first j events.
Balance(events, j) ==
    Cardinality({k \in 1..j : events[k].type = "Start"})
        - Cardinality({k \in 1..j : events[k].type = "End"})

\* The 0-based indices at which a slice that begins with a Start is back at
\* depth zero.
ClosingIndices(events) ==
    {j \in 1..(Len(events) - 1) : events[j + 1].type = "End" /\ Balance(events, j + 1) = 0}

HasMatchingEnd(events) == ClosingIndices(events) # {}

\* The corresponding End of the Start at events[0]: the first closing index.
MatchingEnd(events) ==
    CHOOSE j \in ClosingIndices(events) : \A k \in ClosingIndices(events) : j <= k

WellNested(events) ==
    /\ Balance(events, Len(events)) = 0
    /\ \A j \in 0..Len(events) : Balance(events, j) >= 0

\* events[p..], 1-based p.
Suffix(events, p) == SubSeq(events, p, Len(events))

\* The loop is about to hand a slice that begins with a Start to
\* render_start_tag.
AtStart == Looping /\ Rest[1].type = "Start"

\* The slice the caller's loop handed to the render_start_tag call that
\* awaits the innermost render_events.
CallerRest ==
    LET caller == stack[Len(stack) - 1] IN Slice(caller.events, caller.i, Len(caller.events))

\* The view a loop iteration that makes no call pushes onto the result.
PushedView == stack'[Len(stack')].result[Len(Top.result) + 1]

\* The innermost activation after the step.
TopAfter == stack'[Len(stack')]

\* The innermost render_events has finished and returns to the
\* render_start_tag call that awaits it.
Returning == LoopEnded /\ Len(stack) > 1

\* The view that render_start_tag call hands to its caller's loop.
ReturnedView == stack'[Len(stack')].result[Len(stack[Len(stack) - 1].result) + 1]

\* The attribute names of a view.
AttrNames(v) == {attr[1] : attr \in v.attrs}

\* events without the n events from (1-based) position p on.
Without(events, p, n) == SubSeq(events, 1, p - 1) \o SubSeq(events, p + n, Len(events))

\* A collection of views with every empty text view dropped, at every depth.
RECURSIVE Visible(_)
Visible(views) ==
    IF views = <<>>
    THEN <<>>
    ELSE LET v == Head(views) IN
         (IF v = TextView("") THEN <<>> ELSE <<[v EXCEPT !.children = Visible(@)]>>)
             \o Visible(Tail(views))

\* Whether the class (a token sequence) holds `tokens` as a contiguous run,
\* that is, whether the class string contains that string of classes.
ContainsRun(class, tokens) ==
    \E k \in 0..(Len(class) - Len(tokens)) : SubSeq(class, k + 1, k + Len(tokens)) = tokens

HasToken(class, token) == \E k \in 1..Len(class) : class[k] = token

\* The language tokens the streams of SpecCode can give rise to.
LanguageTokens == {"language-text"} \cup {"language-" \o lang : lang \in Langs \ {""}}

\* The source text carried by the events of a slice: the payloads of its
\* Html, Text, Code and InlineHtml events, in order.
RECURSIVE SourceText(_)
SourceText(events) ==
    IF events = <<>>
    THEN ""
    ELSE LET event == Head(events) IN
         (IF event.type \in {"Html", "Text", "Code", "InlineHtml"} THEN event.text ELSE "")
             \o SourceText(Tail(events))

\* The state machine and the recursive functions compute the same view.
MachineAgreesWithFunctions ==
    (pc = "done" /\ outcome = "ok") => view = render_events(input, options)

----------------------------------------------------------------------------
(* Claims.                                                                 *)

\* C1: when the Start at the head of the slice has no matching End before
\* the end of the stream, find_matching_end answers (len, len), the call
\* takes every event after the Start as the container's children, the
\* caller's cursor ends at the end of its slice (every remaining event is
\* reported consumed), and the render does not fail.
C1_UnmatchedStartConsumesRest ==
    /\ [](outcome # "panic" /\ (pc = "done" => outcome = "ok"))
    /\ [][(AtStart /\ ~HasMatchingEnd(Rest)) =>
            /\ find_matching_end(Rest) = <<Len(Rest), Len(Rest)>>
            /\ pc' = "running"
            /\ IF RendersChildren(Rest[1].tag)
               THEN /\ Len(stack') = Len(stack) + 1
                    /\ stack'[Len(stack')].events = Tail(Rest)
                    /\ stack'[Len(stack')].consumed = Len(Rest)
               ELSE /\ Len(stack') = Len(stack)
                    /\ stack'[Len(stack')].i = Len(Top.events)
                    /\ stack'[Len(stack')].result =
                         Append(Top.result,
                                StartTagView(Rest[1].tag, Tail(Rest), <<>>, options))]_vars
    /\ [][(LoopEnded /\ Len(stack) > 1 /\ ~HasMatchingEnd(CallerRest)) =>
            /\ Top.events = Tail(CallerRest)
            /\ stack'[Len(stack')].i = Len(stack'[Len(stack')].events)]_vars

\* A truncated stream has been rendered: the paragraph opened first was
\* never closed and holds the three events after it as children.
C1_Witness ==
    /\ pc = "done"
    /\ outcome = "ok"
    /\ input = <<Start(Paragraph), Text("a"), Start(Emphasis), Text("a")>>
    /\ Len(view) = 1
    /\ Len(view[1].children) = 2

\* C2: render returns Ok for every stream (well nested, truncated, with
\* stray Ends) and every options value; no slice index is out of range.
C2_RenderNeverFails ==
    /\ outcome # "panic"
    /\ pc = "done" => outcome = "ok"

\* A stream with a stray End and two unclosed Starts has been rendered.
C2_Witness ==
    /\ pc = "done"
    /\ outcome = "ok"
    /\ input = <<End, Start(Paragraph), Start(CodeBlockFenced("rust"))>>
    /\ options.code_theme = NoTheme
    /\ ~options.allow_raw_html

\* C3: every completed loop iteration leaves the cursor strictly greater,
\* every nested render_events call works on a strictly shorter slice than
\* its caller's, and the render reaches its return.
C3_Terminates ==
    /\ [][(pc = "running" /\ pc' = "running" /\ Len(stack') <= Len(stack)) =>
            stack'[Len(stack')].i > stack[Len(stack')].i]_vars
    /\ [](\A k \in 2..Len(stack) : Len(stack[k].events) < Len(stack[k - 1].events))
    /\ <>(pc = "done")

\* A render that nested three calls deep.
C3_Witness == pc = "running" /\ Len(stack) = 3 /\ Top.i = 1

\* C4: in a well-nested stream the scan from any Start stops at that
\* Start's corresponding End (the first later position where Starts and
\* Ends balance), and its depth counter never goes below zero.
C4_MatchIsCorrespondingEnd ==
    WellNested(input) =>
        /\ \A p \in 1..Len(input) :
             input[p].type = "Start" =>
                LET events == Suffix(input, p)
                    depths == ScanDepths(events, 0, 0)
                IN  /\ HasMatchingEnd(events)
                    /\ find_matching_end(events)
                         = <<MatchingEnd(events), MatchingEnd(events) + 1>>
                    /\ \A n \in 1..Len(depths) : depths[n] >= 0
        /\ AtStart =>
             /\ HasMatchingEnd(Rest)
             /\ find_matching_end(Rest) = <<MatchingEnd(Rest), MatchingEnd(Rest) + 1>>

\* A well-nested stream with a nested pair followed by a sibling, the
\* outer scan about to run.
C4_Witness ==
    /\ input = <<Start(Paragraph), Start(Emphasis), End, End, Text("a")>>
    /\ AtStart
    /\ Len(stack) = 1
    /\ Top.i = 0

\* C5: rendering the empty event sequence returns Ok with no view at all.
C5_EmptyStreamEmptyTree ==
    (pc = "done" /\ input = <<>>) => (outcome = "ok" /\ view = <<>>)

C5_Witness == pc = "done" /\ input = <<>> /\ outcome = "ok"

C7_HtmlBlockShowsSource ==
    [][(AtStart /\ Rest[1].tag = HtmlBlock /\ ~options.allow_raw_html
            /\ WellNested(input)) =>
         LET inner_events == Slice(Rest, 1, find_matching_end(Rest)[1]) IN
         /\ Len(stack') = Len(stack)
         /\ PushedView.tag = "pre"
         /\ PushedView.children = <<TextView(SourceText(inner_events))>>
         /\ \A attr \in PushedView.attrs : attr[1] # "inner_html"]_vars

\* C8: an InlineHtml event consumes exactly one event; with allow_raw_html
\* on it is a span whose inner_html is the event's string and which has no
\* text child, with it off it is a text leaf holding the same string and
\* carrying no inner_html.
C8_InlineHtmlRawOrText ==
    [][(Looping /\ Rest[1].type = "InlineHtml") =>
         /\ Len(stack') = Len(stack)
         /\ TopAfter.i = Top.i + 1
         /\ Len(TopAfter.result) = Len(Top.result) + 1
         /\ IF options.allow_raw_html
            THEN /\ PushedView.tag = "span"
                 /\ <<"inner_html", Rest[1].text>> \in PushedView.attrs
                 /\ PushedView.children = <<>>
            ELSE /\ PushedView.tag = "#text"
                 /\ PushedView.text = Rest[1].text
                 /\ PushedView.attrs = {}]_vars

\* Inline HTML inside a paragraph has been rendered as text.
C8_Witness ==
    /\ pc = "done"
    /\ ~options.allow_raw_html
    /\ input = <<Start(Paragraph), InlineHtml("<u>"), End>>
    /\ view[1].children = <<TextView("<u>")>>

\* C9: with language classes on, the pre and the code of a code block both
\* carry language-<lang> for a non-empty fence language and language-text
\* for an empty one or an indented block, and no other language token;
\* with language classes off neither carries a language token.
C9_LanguageTokenOnPreAndCode ==
    [][(AtStart /\ Rest[1].tag.kind = "CodeBlock") =>
         LET tag == Rest[1].tag
             expected ==
                 IF ~options.syntax_highlighting_language_classes
                 THEN {}
                 ELSE IF tag.fenced /\ tag.lang # ""
                      THEN {"language-" \o tag.lang}
                      ELSE {"language-text"}
             LanguageTokensOf(class) ==
                 {class[k] : k \in 1..Len(class)} \cap LanguageTokens
         IN  /\ Len(stack') = Len(stack)
             /\ PushedView.tag = "pre"
             /\ Len(PushedView.children) = 1
             /\ PushedView.children[1].tag = "code"
             /\ LanguageTokensOf(PushedView.class) = expected
             /\ LanguageTokensOf(PushedView.children[1].class) = expected]_vars

\* A fenced rust block has been rendered with explicit classes: both nodes
\* carry language-rust.
C9_Witness ==
    /\ pc = "done"
    /\ options.syntax_highlighting_language_classes
    /\ options.use_explicit_classes
    /\ input = <<Start(CodeBlockFenced("rust")), Text("x"), End>>
    /\ HasToken(view[1].class, "language-rust")
    /\ HasToken(view[1].children[1].class, "language-rust")

\* C10 as stated: the class of a code block's pre contains the configured
\* preset's theme token when code_theme is Some, contains no preset's theme
\* token when code_theme is None, and the code node's class never contains
\* a theme token.  (Stated for the streams a tokenizer can produce, the
\* well-nested ones.)
C10_ThemeTokenIffThemeSet ==
    [][(AtStart /\ Rest[1].tag.kind = "CodeBlock" /\ WellNested(input)) =>
         /\ Len(stack') = Len(stack)
         /\ options.code_theme # NoTheme =>
              ContainsRun(PushedView.class, get_code_theme_classes(options.code_theme))
         /\ options.code_theme = NoTheme =>
              \A theme \in CodeBlockTheme :
                  ~ContainsRun(PushedView.class, get_code_theme_classes(theme))
         /\ \A theme \in CodeBlockTheme :
              ~ContainsRun(PushedView.children[1].class, get_code_theme_classes(theme))]_vars

\* C11: a Link is rendered as an a element whose href is the link's url;
\* it has a title attribute, equal to the link's title, exactly when the
\* title is non-empty; it has target="_blank" and rel="noopener noreferrer"
\* exactly when open_links_in_new_tab is on, whatever the title; and it has
\* no other attribute.
C11_LinkAttributes ==
    [][(Returning /\ Top.tag.kind = "Link") =>
         LET tag == Top.tag
             a == ReturnedView
         IN  /\ a.tag = "a"
             /\ <<"href", tag.dest_url>> \in a.attrs
             /\ ("title" \in AttrNames(a)) <=> (tag.title # "")
             /\ tag.title # "" => <<"title", tag.title>> \in a.attrs
             /\ (<<"target", "_blank">> \in a.attrs) <=> options.open_links_in_new_tab
             /\ (<<"rel", "noopener noreferrer">> \in a.attrs)
                    <=> options.open_links_in_new_tab
             /\ ("target" \in AttrNames(a)) <=> options.open_links_in_new_tab
             /\ ("rel" \in AttrNames(a)) <=> options.open_links_in_new_tab
             /\ AttrNames(a) \subseteq {"href", "title", "target", "rel"}
             /\ Cardinality(a.attrs) = Cardinality(AttrNames(a))]_vars

\* A link without a title has been rendered with new-tab links on, and a
\* titled link inside it as well: the first has href, target and rel, the
\* second has the title too.
C11_Witness ==
    /\ pc = "done"
    /\ options.open_links_in_new_tab
    /\ input = <<Start(Link("u", "")), Start(Link("v", "t")), End, End>>
    /\ view[1].attrs = {<<"href", "u">>, <<"target", "_blank">>,
                        <<"rel", "noopener noreferrer">>}
    /\ view[1].children[1].attrs =
           {<<"href", "v">>, <<"title", "t">>, <<"target", "_blank">>,
            <<"rel", "noopener noreferrer">>}

\* C12: a List with a start number n is rendered as an ol element whose
\* only attribute is start, with the decimal form of n as its value, and a
\* List without a start number as a ul element with no attribute, with
\* use_explicit_classes on and off.
C12_ListTagAndStart ==
    [][(Returning /\ Top.tag.kind = "List") =>
         IF Top.tag.ordered
         THEN /\ ReturnedView.tag = "ol"
              /\ ReturnedView.attrs = {<<"start", ToString(Top.tag.start)>>}
         ELSE /\ ReturnedView.tag = "ul"
              /\ "start" \notin AttrNames(ReturnedView)]_vars

\* A list starting at 3 that holds a bullet list and a list starting at
\* 12 has been rendered without explicit classes.
C12_Witness ==
    /\ pc = "done"
    /\ ~options.use_explicit_classes
    /\ input = <<Start(ListOrdered(3)), Start(ListBullet), End, Start(ListOrdered(12))>>
    /\ view[1].tag = "ol"
    /\ view[1].attrs = {<<"start", "3">>}
    /\ view[1].children[1].tag = "ul"
    /\ view[1].children[1].attrs = {}
    /\ view[1].children[2].tag = "ol"
    /\ view[1].children[2].attrs = {<<"start", "12">>}

\* The events between the Start at the head of a slice and its matching
\* End, or every event after the Start when there is none.
Interior(events) ==
    IF HasMatchingEnd(events)
    THEN SubSeq(events, 2, MatchingEnd(events))
    ELSE Tail(events)

\* The strings of the Text and Code events of a slice, in order, at every
\* nesting depth.
TextIn(events) ==
    LET texts == SelectSeq(events, LAMBDA event : event.type \in {"Text", "Code"})
        Concat[k \in 0..Len(texts)] == IF k = 0 THEN "" ELSE Concat[k - 1] \o texts[k].text
    IN  Concat[Len(texts)]

\* C13: an Image is rendered in one step as one img element without
\* children, whose src is the url, whose alt is the concatenation in order
\* of the text of the events between its Start and End at every depth, and
\* which has a title attribute, equal to the image's title, exactly when
\* the title is non-empty; the cursor moves past the interior events and
\* the End, and nothing else is added to the result.
C13_ImageIsLeafWithAlt ==
    [][(AtStart /\ Rest[1].tag.kind = "Image") =>
         LET tag == Rest[1].tag
             img == PushedView
         IN  /\ Len(stack') = Len(stack)
             /\ Len(TopAfter.result) = Len(Top.result) + 1
             /\ SubSeq(TopAfter.result, 1, Len(Top.result)) = Top.result
             /\ TopAfter.i = Top.i + 1 + Len(Interior(Rest))
                                 + (IF HasMatchingEnd(Rest) THEN 1 ELSE 0)
             /\ img.tag = "img"
             /\ img.children = <<>>
             /\ <<"src", tag.dest_url>> \in img.attrs
             /\ <<"alt", TextIn(Interior(Rest))>> \in img.attrs
             /\ ("title" \in AttrNames(img)) <=> (tag.title # "")
             /\ tag.title # "" => <<"title", tag.title>> \in img.attrs
             /\ Cardinality(img.attrs) = Cardinality(AttrNames(img))]_vars

\* An untitled image whose alt text is emphasised inline code has been
\* rendered: one img, alt "b", no title, no children.
C13_Witness ==
    /\ pc = "done"
    /\ input = <<Start(Image("u", "")), Start(Emphasis), Code("b"), End, End>>
    /\ Len(view) = 1
    /\ view[1].tag = "img"
    /\ view[1].attrs = {<<"src", "u">>, <<"alt", "b">>}
    /\ view[1].children = <<>>

\* C14: a Heading of level n is rendered as the element hn, with
\* use_explicit_classes on and off alike, so that the six levels give six
\* different elements and the element does not depend on the class switch.
C14_HeadingLevelToTag ==
    [][(Returning /\ Top.tag.kind = "Heading") =>
         /\ ReturnedView.tag = "h" \o ToString(Top.tag.level)
         /\ \A other \in HeadingLevels \ {Top.tag.level} :
                ReturnedView.tag # "h" \o ToString(other)]_vars

\* A level-6 heading has been rendered without explicit classes as an h6
\* that holds its text.
C14_Witness ==
    /\ pc = "done"
    /\ ~options.use_explicit_classes
    /\ input = <<Start(Heading(6)), Text("a"), End>>
    /\ view[1].tag = "h6"
    /\ view[1].children = <<TextView("a")>>

\* The elements of a collection of views, at every depth.
RECURSIVE ElementsIn(_)
ElementsIn(views) ==
    IF views = <<>>
    THEN {}
    ELSE LET v == Head(views) IN
         (IF v.tag = "#text" THEN {} ELSE {v} \cup ElementsIn(v.children))
             \cup ElementsIn(Tail(views))

\* The element has a class attribute that holds at least one class.
CarriesStyleToken(element) == element.has_class /\ element.class # <<>>

\* C15 as stated: every element of the rendered tree carries a style token
\* (a non-empty class) when use_explicit_classes is on, and no element
\* carries one when it is off.  (Stated for the streams a tokenizer can
\* produce, the well-nested ones.)
C15_StyleTokenIffExplicit ==
    (pc = "done" /\ outcome = "ok" /\ WellNested(input)) =>
        \A element \in ElementsIn(view) :
            CarriesStyleToken(element) <=> options.use_explicit_classes

\* C16: once render has built the parser options, tables, footnotes,
\* strikethrough and task lists are all enabled when enable_gfm is true and
\* none of them is when it is false; no other flag is set, so the flags
\* are the same under every value of the other five option fields.
C16_GfmSetsTokenizerFlags ==
    pc # "idle" =>
        /\ \A feature \in {"ENABLE_TABLES", "ENABLE_FOOTNOTES", "ENABLE_STRIKETHROUGH",
                            "ENABLE_TASKLISTS"} :
               (feature \in parser_options) <=> options.enable_gfm
        /\ Cardinality(parser_options) = IF options.enable_gfm THEN 4 ELSE 0

\* A render with enable_gfm on and every other switch off has set the
\* four flags.
C16_Witness ==
    /\ pc = "done"
    /\ options.enable_gfm
    /\ options.code_theme = NoTheme
    /\ ~options.syntax_highlighting_language_classes
    /\ ~options.open_links_in_new_tab
    /\ ~options.allow_raw_html
    /\ ~options.use_explicit_classes
    /\ parser_options =
           {"ENABLE_TABLES", "ENABLE_FOOTNOTES", "ENABLE_STRIKETHROUGH", "ENABLE_TASKLISTS"}

\* The field a setter names and the value it gives it.
FieldOf(call) ==
    CASE call.name = "with_gfm" -> "enable_gfm"
      [] call.name \in {"with_code_theme", "without_code_theme"} -> "code_theme"
      [] call.name = "with_language_classes" -> "syntax_highlighting_language_classes"
      [] call.name = "with_new_tab_links" -> "open_links_in_new_tab"
      [] call.name = "with_allow_raw_html" -> "allow_raw_html"
      [] call.name = "with_explicit_classes" -> "use_explicit_classes"

ValueOf(call) == IF call.name = "without_code_theme" THEN NoTheme ELSE call.arg

\* The value the last setter of the chain that names `field` gave it, or
\* the value MarkdownOptions::new() gives it when no setter names it.
LastSet(field) ==
    LET setting == {k \in 1..Len(calls) : FieldOf(calls[k]) = field} IN
    IF setting = {}
    THEN [enable_gfm |-> TRUE, code_theme |-> "Default",
          syntax_highlighting_language_classes |-> TRUE, open_links_in_new_tab |-> TRUE,
          allow_raw_html |-> TRUE, use_explicit_classes |-> FALSE][field]
    ELSE ValueOf(calls[CHOOSE k \in setting : \A other \in setting : other <= k])

\* C17: after any chain of builder setters applied to MarkdownOptions::new(),
\* each of the six fields holds the value given by the last setter of the
\* chain that names it (Some(t) after with_code_theme(t), None after
\* without_code_theme), or its default when no setter names it; so a
\* setter changes the field it names and no other.
C17_FieldsHoldLastValueSet ==
    pc = "building" =>
        /\ DOMAIN options =
               {"enable_gfm", "code_theme", "syntax_highlighting_language_classes",
                "open_links_in_new_tab", "allow_raw_html", "use_explicit_classes"}
        /\ \A field \in DOMAIN options : options[field] = LastSet(field)

\* A theme was set and then removed, and explicit classes switched on:
\* code_theme is None, use_explicit_classes is true, the other four fields
\* have their defaults.
C17_Witness ==
    /\ pc = "building"
    /\ calls = <<Call("with_code_theme", "Dark"), Call("with_explicit_classes", TRUE),
                 Call("without_code_theme", FALSE)>>
    /\ options = [enable_gfm |-> TRUE, code_theme |-> NoTheme,
                  syntax_highlighting_language_classes |-> TRUE,
                  open_links_in_new_tab |-> TRUE, allow_raw_html |-> TRUE,
                  use_explicit_classes |-> TRUE]

\* C18: the classes get_code_theme_classes gives for the renderer's preset
\* are non-empty and differ from the classes it gives for each of the
\* other four presets; as the preset ranges over Default, Dark, Light,
\* GitHub and Monokai, all ten pairs differ.
C18_ThemeTokensDistinct ==
    options.code_theme \in CodeBlockTheme =>
        /\ get_code_theme_classes(options.code_theme) # <<>>
        /\ \A other \in {"Default", "Dark", "Light", "GitHub", "Monokai"} :
               other # options.code_theme =>
                   get_code_theme_classes(other) # get_code_theme_classes(options.code_theme)

\* A code block has been rendered under the GitHub preset: its pre ends
\* with that preset's classes, which are not those of Light.
C18_Witness ==
    /\ pc = "done"
    /\ options.code_theme = "GitHub"
    /\ ~options.use_explicit_classes
    /\ ~options.syntax_highlighting_language_classes
    /\ input = <<Start(CodeBlockIndented), Text("x"), End>>
    /\ view[1].class =
           <<"markdown-code-block", "bg-[#f6f8fa]", "dark:bg-[#0d1117]", "text-[#24292f]",
             "dark:text-[#f0f6fc]">>
    /\ get_code_theme_classes("Light") # SubSeq(view[1].class, 2, 5)

\* C19: no step of a render call, and no further call, changes the
\* renderer's options, and any two render calls on the renderer that were
\* given the same event sequence returned identical trees, whatever calls
\* came before or between them.
C19_RenderIsPure ==
    [][/\ options' = options
       /\ \A j, k \in 1..Len(returned') :
              returned'[j].input = returned'[k].input =>
                  returned'[j].view = returned'[k].view]_vars

\* The paragraph document was rendered, then the image document, then the
\* paragraph document again: the first and third trees are the same
\* paragraph.
C19_Witness ==
    /\ pc = "done"
    /\ Len(returned) = 3
    /\ returned[1].input = <<Start(Paragraph), Text("a"), End>>
    /\ returned[2].input = <<Start(Image("u", "")), Text("a"), End>>
    /\ returned[3].input = returned[1].input
    /\ returned[3].view = returned[1].view
    /\ returned[1].view = <<ElementNoClass("p", {}, <<TextView("a")>>)>>

\* The text leaves of a collection of views, at every depth.
RECURSIVE TextsIn(_)
TextsIn(views) ==
    IF views = <<>>
    THEN {}
    ELSE LET v == Head(views) IN
         (IF v.tag = "#text" THEN {v.text} ELSE TextsIn(v.children))
             \cup TextsIn(Tail(views))

\* Failure messages a render could report.
Messages == {"", "tokenizer failed"}

\* C20: the render call of the Markdown component does not unwind, and
\* what the component emits is exactly one node: on Ok, the wrapper div
\* whose class is the prose classes, followed by the caller's class when
\* one is given, and whose children are the complete rendered tree; on
\* Err, for every message, a div with the error box's class (which is not
\* the wrapper's) holding only the fixed notice and the message, and no
\* rendered tree.  Before the match nothing is emitted.
C20_WrapperOrErrorBox ==
    /\ outcome # "panic"
    /\ pc # "mounted" => emitted = <<>>
    /\ pc = "mounted" =>
          /\ outcome = "ok"
          /\ Len(emitted) = 1
          /\ emitted[1].tag = "div"
          /\ emitted[1].class =
                 get_enhanced_prose_classes
                     \o (IF class_prop.given THEN class_prop.tokens ELSE <<>>)
          /\ emitted[1].children = render_events(input, options)
          /\ emitted[1].class # ErrorBoxClass
    /\ \A msg \in Messages :
          LET box == MarkdownView(Err(msg), class_prop) IN
          /\ box.tag = "div"
          /\ \A tokens \in {<<>>, class_prop.tokens} :
                 box.class # get_enhanced_prose_classes \o tokens
          /\ Len(box.children) = 2
          /\ \A k \in 1..2 : box.children[k].tag = "p"
          /\ box.children[1].children = <<TextView("Failed to render markdown content")>>
          /\ box.children[2].children = <<TextView(msg)>>
          /\ Cardinality(ElementsIn(<<box>>)) = 3
          /\ TextsIn(<<box>>) = {"Failed to render markdown content", msg}

\* The paragraph document has been mounted with a class given: one
\* wrapper whose class ends with the caller's class and which holds the
\* paragraph.
C20_Witness ==
    /\ pc = "mounted"
    /\ class_prop = SomeClass(<<"mt-4">>)
    /\ input = <<Start(Paragraph), Text("a"), End>>
    /\ ~options.use_explicit_classes
    /\ Len(emitted) = 1
    /\ emitted[1].class = get_enhanced_prose_classes \o <<"mt-4">>
    /\ emitted[1].children = <<ElementNoClass("p", {}, <<TextView("a")>>)>>

\* The consumed count a render_event call on a non-empty slice is to
\* return: 1 for an event that is not a Start, the index of the matching
\* End plus one for a Start that has one, the slice length otherwise.
ExpectedConsumed(events) ==
    IF events[1].type # "Start"
    THEN 1
    ELSE IF HasMatchingEnd(events) THEN MatchingEnd(events) + 1 ELSE Len(events)

\* C21: no step takes an index out of range (the render never unwinds);
\* after every step the cursor of every render_events activation lies
\* between 0 and the length of its slice; every loop iteration hands
\* render_event a non-empty slice and the consumed count of that call is 1
\* for a leaf or End event and the index of the matching End plus one, or
\* the slice length, for a Start, hence between 1 and the slice length;
\* and the cursor advances by exactly that count.
C21_CursorAndConsumedInRange ==
    [][/\ outcome' # "panic"
       /\ \A k \in 1..Len(stack') :
              stack'[k].i >= 0 /\ stack'[k].i <= Len(stack'[k].events)
       /\ Looping =>
              LET consumed == ExpectedConsumed(Rest) IN
              /\ Len(Rest) >= 1
              /\ consumed >= 1 /\ consumed <= Len(Rest)
              /\ IF Len(stack') = Len(stack)
                 THEN TopAfter.i = Top.i + consumed
                 ELSE /\ TopAfter.consumed = consumed
                      /\ Len(TopAfter.events) = consumed - (IF HasMatchingEnd(Rest) THEN 2 ELSE 1)
       /\ Returning => TopAfter.i = stack[Len(stack) - 1].i + Top.consumed]_vars

\* The loop has consumed a closed paragraph (three events at once) and an
\* unclosed emphasis (the remaining two): the cursor is at the end of the
\* stream.
C21_Witness ==
    /\ pc = "running"
    /\ input = <<Start(Paragraph), Text("a"), End, Start(Emphasis), Text("a")>>
    /\ Len(stack) = 1
    /\ Top.i = 5
    /\ Len(Top.result) = 2

\* A stream cut into its top-level units: an event that is not a Start on
\* its own, a Start with everything up to its matching End (or up to the
\* end of the stream when it has none).
RECURSIVE Units(_)
Units(events) ==
    IF events = <<>>
    THEN <<>>
    ELSE LET n == ExpectedConsumed(events) IN
         <<SubSeq(events, 1, n)>> \o Units(SubSeq(events, n + 1, Len(events)))

\* The views are the renderings of the units of the stream, one view per
\* unit and in the order of the units.
RendersUnitsInOrder(events, views) ==
    LET units == Units(events) IN
    /\ Len(views) = Len(units)
    /\ \A k \in 1..Len(units) : <<views[k]>> = render_events(units[k], options)

\* A tag of every kind whose arm renders children.
ContainerTags ==
    {Paragraph, BlockQuote, ListOrdered(3), ListBullet, Item, FootnoteDefinition("n"),
     DefinitionList, DefinitionListTitle, DefinitionListDefinition, Table, TableHead,
     TableRow, TableCell, Emphasis, Strong, Strikethrough, Superscript, Subscript,
     Link("u", "t")}
        \cup {Heading(level) : level \in HeadingLevels}

\* C22: when the render_events call made for a container returns, the
\* events it was given are those strictly between the container's Start
\* and its matching End, the node handed to the caller has as children
\* exactly the recursive rendering of those events, whatever the kind of
\* the container, and at every level, the outermost included, the views
\* collected are the renderings of the level's units, one per unit and in
\* stream order, so that no event is rendered twice or skipped.
C22_ChildrenAreInteriorInOrder ==
    [][/\ Returning =>
              /\ Top.events = Interior(CallerRest)
              /\ ReturnedView.children = render_events(Interior(CallerRest), options)
              /\ RendersUnitsInOrder(Top.events, ReturnedView.children)
              /\ \A tag \in ContainerTags :
                     /\ RendersChildren(tag)
                     /\ StartTagView(tag, Top.events, Top.result, options).children
                            = ReturnedView.children
       /\ (LoopEnded /\ Len(stack) = 1) => RendersUnitsInOrder(input, view')]_vars

\* A paragraph holding text and then an empty emphasis has been rendered:
\* p with the text first and the em second.
C22_Witness ==
    /\ pc = "done"
    /\ ~options.use_explicit_classes
    /\ input = <<Start(Paragraph), Text("a"), Start(Emphasis), End, End>>
    /\ view = <<ElementNoClass("p", {},
                              <<TextView("a"), ElementNoClass("em", {}, <<>>)>>)>>

\* C23: a code block is rendered as a pre holding one code node whose only
\* child is a text leaf, and that text is the concatenation, in stream
\* order and without separator, of the strings of the Text and Code events
\* between the block's Start and End; Start, End and break events there
\* add nothing.
C23_CodeTextIsConcatenation ==
    [][(AtStart /\ Rest[1].tag.kind = "CodeBlock") =>
         /\ Len(stack') = Len(stack)
         /\ Len(PushedView.children) = 1
         /\ PushedView.children[1].tag = "code"
         /\ PushedView.children[1].children = <<TextView(TextIn(Interior(Rest)))>>]_vars

\* A block holding text and then inline code has been rendered: the code
\* node's text is "xy".
C23_Witness ==
    /\ pc = "done"
    /\ input = <<Start(CodeBlockFenced("rust")), Text("x"), Code("y"), End>>
    /\ Len(view) = 1
    /\ view[1].children[1].children = <<TextView("xy")>>

\* No element of the views, at any depth, has an inner_html attribute.
NothingInjected(views) ==
    \A element \in ElementsIn(views) : "inner_html" \notin AttrNames(element)

\* C24: with allow_raw_html off, no element built so far or returned has
\* an inner_html attribute, and the three sources of HTML give text: an
\* Html event a span whose only child is a text leaf holding its string,
\* an InlineHtml event a text leaf holding its string, an HtmlBlock a pre
\* whose only child is a text leaf.
C24_NoInjectionWhenRawHtmlOff ==
    [][~options.allow_raw_html =>
         /\ NothingInjected(view')
         /\ \A k \in 1..Len(stack') : NothingInjected(stack'[k].result)
         /\ (Looping /\ Rest[1].type = "Html") =>
                /\ PushedView.tag = "span"
                /\ PushedView.children = <<TextView(Rest[1].text)>>
         /\ (Looping /\ Rest[1].type = "InlineHtml") => PushedView = TextView(Rest[1].text)
         /\ (AtStart /\ Rest[1].tag = HtmlBlock) =>
                /\ PushedView.tag = "pre"
                /\ Len(PushedView.children) = 1
                /\ PushedView.children[1].tag = "#text"]_vars

\* With allow_raw_html off, an HTML block, an Html event outside a block
\* and inline HTML have been rendered as a pre, a span and a text leaf.
C24_Witness ==
    /\ pc = "done"
    /\ ~options.allow_raw_html
    /\ input = <<Start(HtmlBlock), End, Html("<i>"), InlineHtml("<u>")>>
    /\ view[1].tag = "pre"
    /\ view[2].children = <<TextView("<i>")>>
    /\ view[3] = TextView("<u>")
    /\ NothingInjected(view)

\* The shape of a collection of views: for each view its tag, its text and
\* the shape of its children, without class and attributes.
RECURSIVE ShapeOf(_)
ShapeOf(views) ==
    [k \in 1..Len(views) |->
        [tag |-> views[k].tag, text |-> views[k].text,
         children |-> ShapeOf(views[k].children)]]

\* C25: the tree a render returned has the same shape (tags, nesting,
\* child order and text) as the tree rendered from the same events under
\* any other options with the same allow_raw_html, whatever their
\* use_explicit_classes, code_theme, language classes, new-tab links and
\* enable_gfm.
C25_ShapeIndependentOfStyling ==
    (pc = "done" /\ outcome = "ok") =>
        \A other \in MarkdownOptions :
            other.allow_raw_html = options.allow_raw_html =>
                ShapeOf(render_events(input, other)) = ShapeOf(view)

\* A fenced code block has been rendered under the default options: with
\* explicit classes, no theme and no language classes the tree differs in
\* the classes of pre and code, its shape does not.
C25_Witness ==
    LET other == [DefaultOptions EXCEPT !.use_explicit_classes = TRUE,
                                        !.code_theme = NoTheme,
                                        !.syntax_highlighting_language_classes = FALSE]
    IN  /\ pc = "done"
        /\ options = DefaultOptions
        /\ input = <<Start(CodeBlockFenced("rust")), Text("x"), End>>
        /\ view[1].class # render_events(input, other)[1].class
        /\ view[1].children[1].class # render_events(input, other)[1].children[1].class
        /\ ShapeOf(view) = ShapeOf(render_events(input, other))

====
